---- MODULE Spec2Model ----
(***************************************************************************)
(* A model of src/main.py: the Booking.com harvesting script.              *)
(*                                                                         *)
(* run drives one harvest: it reads the search parameters from the page    *)
(* (get_search_parameters), scrolls until the result list is stable        *)
(* (load_all_hotels), reads every hotel card (collect_hotel_data) under a  *)
(* consecutive-failure breaker, and stores the batch (save_to_database).   *)
(*                                                                         *)
(* Texts on which the code works character by character (guest counts,     *)
(* ratings, links) are sequences of one-character strings; texts the code  *)
(* only copies (names, prices, addresses, locations, dates) are strings.   *)
(***************************************************************************)
EXTENDS Integers, Sequences, FiniteSets, TLC

(***************************************************************************)
(* Bounds of the model.                                                    *)
(***************************************************************************)
\* The largest number of hotel cards on the result page.
MaxItems == 6
\* Scroll heights the page can report are 0..MaxHeight.
MaxHeight == 2
\* The largest number of sessions already stored in hotels.db before the run.
MaxPriorSessions == 1

(***************************************************************************)
(* Program constants.                                                      *)
(***************************************************************************)
\* load_all_hotels: max_attempts = 100
max_attempts == 100
\* load_all_hotels: if no_new_hotels_count >= 2
stall_threshold == 2
\* run: max_failed_attempts = 5
max_failed_attempts == 5
\* get_search_parameters: selectors (4 location inputs)
NumLocationSelectors == 4
\* get_search_parameters: guest_selectors (3 selectors)
NumGuestSelectors == 3

(***************************************************************************)
(* Python values.                                                          *)
(***************************************************************************)
\* None, where the other values of the variable are strings.
None == "None"
\* "not x" is false for a string exactly when it is neither None nor "".
Truthy(x) == x # None /\ x # ""

\* An optional text: None, or a str given by its characters.
NoneStr == [none |-> TRUE, s |-> <<>>]
Str(s) == [none |-> FALSE, s |-> s]
TruthyStr(v) == ~v.none /\ v.s # <<>>

Digits == {"0", "1", "2", "3", "4", "5", "6", "7", "8", "9"}

DigitValue(c) ==
    CASE c = "0" -> 0 [] c = "1" -> 1 [] c = "2" -> 2 [] c = "3" -> 3
      [] c = "4" -> 4 [] c = "5" -> 5 [] c = "6" -> 6 [] c = "7" -> 7
      [] c = "8" -> 8 [] c = "9" -> 9

\* The length of the run of digits of s that starts at position i.
RECURSIVE DigitRun(_, _)
DigitRun(s, i) ==
    IF i <= Len(s) /\ s[i] \in Digits THEN 1 + DigitRun(s, i + 1) ELSE 0

\* The position of the first digit of s at or after i, 0 when there is none.
RECURSIVE FirstDigit(_, _)
FirstDigit(s, i) ==
    IF i > Len(s) THEN 0
    ELSE IF s[i] \in Digits THEN i
    ELSE FirstDigit(s, i + 1)

\* The value of a non-empty sequence of digits.
RECURSIVE DecimalValue(_)
DecimalValue(s) ==
    IF s = <<>> THEN 0
    ELSE 10 * DecimalValue(SubSeq(s, 1, Len(s) - 1)) + DigitValue(s[Len(s)])

\* s without its leading and trailing blanks (str.strip, as int() applies it).
RECURSIVE Strip(_)
Strip(s) ==
    IF s = <<>> THEN s
    ELSE IF s[1] = " " THEN Strip(Tail(s))
    ELSE IF s[Len(s)] = " " THEN Strip(SubSeq(s, 1, Len(s) - 1))
    ELSE s

\* int(s) of a str: blanks around it are dropped, then an optional sign and at
\* least one digit; anything else raises ValueError (ok = FALSE).
IntParse(s) ==
    LET t == Strip(s)
        signed == t # <<>> /\ t[1] \in {"+", "-"}
        body == IF signed THEN Tail(t) ELSE t
        wellFormed == body # <<>> /\ \A k \in 1..Len(body) : body[k] \in Digits
    IN  IF wellFormed
        THEN [ok |-> TRUE,
              val |-> IF signed /\ t[1] = "-" THEN 0 - DecimalValue(body)
                      ELSE DecimalValue(body)]
        ELSE [ok |-> FALSE, val |-> 0]

\* re.findall(r'\d+', s)[0]: the first maximal run of digits; indexing the empty
\* list raises IndexError (ok = FALSE).
FirstInt(s) ==
    LET p == FirstDigit(s, 1)
    IN  IF p = 0 THEN [ok |-> FALSE, s |-> <<>>]
        ELSE [ok |-> TRUE, s |-> SubSeq(s, p, p + DigitRun(s, p) - 1)]

(***************************************************************************)
(* clean_rating                                                            *)
(***************************************************************************)
NoRating == <<"N", "o", " ", "r", "a", "t", "i", "n", "g">>

\* re.search(r'(\d+\.?\d*)', rating_text): from the first digit, the digits, then
\* a "." if one follows, then the digits after it.
clean_rating(rating_text) ==
    LET p == FirstDigit(rating_text, 1)
        n == DigitRun(rating_text, p)
        dot == p + n <= Len(rating_text) /\ rating_text[p + n] = "."
        m == IF dot THEN DigitRun(rating_text, p + n + 1) ELSE 0
    IN  IF p = 0 THEN NoRating
        ELSE SubSeq(rating_text, p, p + n - 1 + (IF dot THEN 1 + m ELSE 0))

(***************************************************************************)
(* collect_hotel_data                                                      *)
(***************************************************************************)
\* The outcome of one read of the page: the value read, or the exception raised
\* (TimeoutError, or any other Exception).
Ok(v) == [exc |-> "none", v |-> v]
Raised(e) == [exc |-> e, v |-> None]
RaisedStr(e) == [exc |-> e, v |-> NoneStr]
Exceptions == {"Timeout", "Error"}

Origin ==
    <<"h", "t", "t", "p", "s", ":", "/", "/", "w", "w", "w", ".",
      "b", "o", "o", "k", "i", "n", "g", ".", "c", "o", "m">>
NoLink == <<"N", "o", " ", "l", "i", "n", "k", " ",
            "a", "v", "a", "i", "l", "a", "b", "l", "e">>
NoAddress == "No address available"

\* link.startswith('http')
StartsWithHttp(s) == Len(s) >= 4 /\ SubSeq(s, 1, 4) = <<"h", "t", "t", "p">>

\* Lines 206-212: the href, made absolute when it is non-empty and does not start
\* with "http"; the sentinel when the read raises.
LinkOf(href) ==
    IF href.exc # "none" THEN Str(NoLink)
    ELSE IF TruthyStr(href.v) /\ ~StartsWithHttp(href.v.s)
         THEN Str(Origin \o href.v.s)
         ELSE href.v

\* Lines 215-218.
AddressOf(address) ==
    IF address.exc # "none" THEN NoAddress ELSE address.v

\* Lines 221-225.
RatingOf(rating) ==
    IF rating.exc # "none" THEN NoRating ELSE clean_rating(rating.v.s)

\* The function with the reads of lines 206-208 outside their own try: a raise
\* of the href read gives the item up too.
MandatoryReadFailsWithLink(hotel) ==
    hotel.name.exc # "none" \/ hotel.price.exc # "none" \/ hotel.href.exc # "none"

\* Whether the item is given up: the read of name or of price raised (lines
\* 202-203, caught at 234-239).
MandatoryReadFails(hotel) ==
    hotel.name.exc # "none" \/ hotel.price.exc # "none"

\* The record of a hotel card, or NoData (None) when name or price cannot be
\* read. present tells the two apart.
NoData ==
    [present |-> FALSE, name |-> None, price |-> None, rating |-> NoRating,
     address |-> None, link |-> NoneStr]

collect_hotel_data(hotel) ==
    IF MandatoryReadFails(hotel) THEN NoData
    ELSE [present |-> TRUE,
          name |-> hotel.name.v,
          price |-> hotel.price.v,
          rating |-> RatingOf(hotel.rating),
          address |-> AddressOf(hotel.address),
          link |-> LinkOf(hotel.href)]

(***************************************************************************)
(* State                                                                   *)
(***************************************************************************)
VARIABLES
    pc,                  \* the statement the script is at
    context_closed,      \* how many times context.close() has run
    browser_closed,      \* how many times browser.close() has run
    run_raised,          \* an exception has left run
    run_exc,             \* the exception caught at run's "except Exception"
    params,              \* run: (location, check_in, check_out, guests), <<>> before
    g_location,          \* get_search_parameters: location
    g_check_in,          \* get_search_parameters: check_in
    g_check_out,         \* get_search_parameters: check_out
    g_guests,            \* get_search_parameters: guests, before int()
    sel,                 \* get_search_parameters: the selector the loop is at
    log,                 \* the strategies the chain at hand has tried, in order
    attempt,             \* load_all_hotels: rounds completed
    last_height,         \* load_all_hotels
    current_height,      \* load_all_hotels: the extent the last round measured
    earlier_height,      \* what last_height held before line 196 last set it
    no_new_hotels_count, \* load_all_hotels
    load_break,          \* load_all_hotels left its loop through break
    count,               \* run: how many cards hotel_elements lists
    visited,             \* the cards the loop has taken so far, in document order
    idx,                 \* run: i, how many cards the loop has taken
    hotel,               \* the card last passed to collect_hotel_data
    data,                \* what collect_hotel_data last returned
    hotels_data,         \* run: the batch
    failed_attempts,     \* run
    loop_break,          \* run left its loop through break
    db,                  \* hotels.db as committed: [sessions, hotels]
    tx,                  \* the connection's uncommitted rows: [sessions, hotels]
    session_id,          \* save_to_database: cursor.lastrowid, 0 before
    written,             \* save_to_database: hotels of the batch inserted so far
    write_faulted,       \* a statement of save_to_database has raised
    save_calls           \* the batches save_to_database has been called with

vars ==
    <<pc, context_closed, browser_closed, run_raised, run_exc, params,
      g_location, g_check_in, g_check_out, g_guests, sel, log, attempt,
      last_height, current_height, earlier_height, no_new_hotels_count, load_break, count, visited, idx, hotel,
      data,
      hotels_data, failed_attempts, loop_break, db, tx, session_id, written,
      write_faulted, save_calls>>

gspVars == <<g_location, g_check_in, g_check_out, g_guests, sel, log>>
browserVars == <<context_closed, browser_closed, run_raised, run_exc>>
loadVars ==
    <<attempt, last_height, current_height, earlier_height, no_new_hotels_count,
      load_break>>
loopVars == <<count, visited, idx, hotel, data, hotels_data, failed_attempts, loop_break>>
saveVars == <<db, tx, session_id, written, write_faulted, save_calls>>

(***************************************************************************)
(* get_search_parameters                                                   *)
(***************************************************************************)
\* What the page can hold. The search the user made shows the same way wherever
\* the page shows it; the URL carries the location percent-encoded.
InputLocation == "New York"
UrlLocation == "New+York"
CheckInDate == "2026-12-01"
CheckOutDate == "2026-12-03"
\* datetime.now() and the day after, as strftime('%Y-%m-%d') prints them.
Today == "2026-11-05"
Tomorrow == "2026-11-06"
UnknownLocation == "Unknown Location"

\* group_adults in the URL, or the value of the guests input.
GuestValues == {<<>>, <<"2">>, <<"0">>, <<"-", "1">>, <<"x">>}
\* The text of the occupancy label.
GuestLabels == {<<>>, <<"2", " ", "a">>, <<"a">>, <<"-", "2">>}

\* The strategies of a chain, numbered in the order the code lists them.
\* location: the four input selectors (1..4), then the URL (5).
LocationUrlStrategy == NumLocationSelectors + 1
\* dates: the URL (1), the date buttons (2), the date box (3).
\* guests: the URL (1), then for selector k its input value (2k) and its text
\* (2k + 1).
GuestInputStrategy(k) == 2 * k
GuestTextStrategy(k) == 2 * k + 1

Tried(chain, strategy, produced) ==
    [chain |-> chain, strategy |-> strategy, produced |-> produced]

\* The locals of get_search_parameters before its first statement, and after it
\* has returned.
GspLocalsGone ==
    /\ g_location' = None
    /\ g_check_in' = None
    /\ g_check_out' = None
    /\ g_guests' = NoneStr
    /\ sel' = 1
    /\ log' = <<>>

\* Lines 58-59 left out: the loop goes through every selector.
LocationNeverFound(v) == FALSE

\* Lines 58-59: the selector loop stops at a non-empty value.
LocationFound(v) == Truthy(v)

\* Lines 55-61: one selector of the location loop. input_value() returns a str
\* or raises; a raise is passed over.
LocationSelector ==
    /\ pc = "gsp_loc_sel"
    /\ \E r \in {Ok(""), Ok(InputLocation)} \cup {Raised(e) : e \in Exceptions} :
        LET v == IF r.exc = "none" THEN r.v ELSE g_location
            found == r.exc = "none" /\ LocationFound(r.v)
        IN  /\ g_location' = v
            /\ log' = Append(log, Tried("location", sel, r.exc = "none" /\ Truthy(r.v)))
            /\ IF found \/ sel = NumLocationSelectors
               THEN pc' = "gsp_loc_url" /\ sel' = 1
               ELSE pc' = pc /\ sel' = sel + 1
    /\ UNCHANGED <<browserVars, params, g_check_in, g_check_out, g_guests,
                   loadVars, loopVars, saveVars>>

\* Line 62 left out: the URL is always looked at.
LocationAlwaysMissing(l) == TRUE

\* Line 62: the URL is looked at when the inputs gave no location.
LocationMissing(l) == ~Truthy(l)

\* Lines 62-65: with no location yet, the URL. u is what
\* url.split('ss=')[1].split('&')[0] gives, None when the URL is no search URL
\* or has no ss=.
LocationFromUrl ==
    /\ pc = "gsp_loc_url"
    /\ LocationMissing(g_location)
    /\ \E u \in {None, "", UrlLocation} :
        /\ g_location' = IF u = None THEN g_location ELSE u
        /\ log' = Append(log, Tried("location", LocationUrlStrategy, Truthy(u)))
    /\ pc' = "gsp_date_url"
    /\ UNCHANGED <<browserVars, params, g_check_in, g_check_out, g_guests, sel,
                   loadVars, loopVars, saveVars>>

\* Line 62: the location is there, the URL is not looked at.
LocationKept ==
    /\ pc = "gsp_loc_url"
    /\ ~LocationMissing(g_location)
    /\ pc' = "gsp_date_url"
    /\ UNCHANGED <<browserVars, params, gspVars, loadVars, loopVars, saveVars>>

\* Lines 79 and 88: a later date strategy runs when a date is missing.
DatesMissing(ci, co) == ~Truthy(ci) \/ ~Truthy(co)

\* Lines 69-77: the dates of the URL; u is None when the URL lacks checkin= or
\* checkout=.
DatesFromUrl ==
    /\ pc = "gsp_date_url"
    /\ \E u \in {<<None, None>>} \cup ({"", CheckInDate} \X {"", CheckOutDate}) :
        /\ g_check_in' = u[1]
        /\ g_check_out' = u[2]
        /\ log' = <<Tried("dates", 1, Truthy(u[1]) /\ Truthy(u[2]))>>
    /\ pc' = "gsp_date_btn"
    /\ UNCHANGED <<browserVars, params, g_location, g_guests, sel, loadVars,
                   loopVars, saveVars>>

\* What get_attribute('data-date') gives for a button: None without the
\* attribute, a str, or a raise.
ButtonReads(date) == {Ok(None), Ok(""), Ok(date)} \cup {Raised(e) : e \in Exceptions}

\* Lines 80-86: the date buttons. Listing them raises, or there are fewer than
\* two, or the first two are read in turn; a raise ends the strategy where it is.
DatesFromButtons ==
    /\ pc = "gsp_date_btn"
    /\ DatesMissing(g_check_in, g_check_out)
    /\ \/ /\ UNCHANGED <<g_check_in, g_check_out>>
          /\ log' = Append(log, Tried("dates", 2, FALSE))
       \/ \E a \in ButtonReads(CheckInDate), b \in ButtonReads(CheckOutDate) :
            /\ g_check_in' = IF a.exc = "none" THEN a.v ELSE g_check_in
            /\ g_check_out' = IF a.exc = "none" /\ b.exc = "none" THEN b.v
                              ELSE g_check_out
            /\ log' = Append(log, Tried("dates", 2,
                                        /\ a.exc = "none" /\ b.exc = "none"
                                        /\ Truthy(a.v) /\ Truthy(b.v)))
    /\ pc' = "gsp_date_box"
    /\ UNCHANGED <<browserVars, params, g_location, g_guests, sel, loadVars,
                   loopVars, saveVars>>

\* Line 79: both dates are there.
ButtonsSkipped ==
    /\ pc = "gsp_date_btn"
    /\ ~DatesMissing(g_check_in, g_check_out)
    /\ pc' = "gsp_date_box"
    /\ UNCHANGED <<browserVars, params, gspVars, loadVars, loopVars, saveVars>>

\* Lines 89-105: the date box. "none": it is not visible, its text does not
\* match, or a call raises before check_in is set (month_map has no entry for
\* the first month, say); "first": check_in is set and month_map raises KeyError
\* on the second month; "both": both dates are set.
DatesFromBox ==
    /\ pc = "gsp_date_box"
    /\ DatesMissing(g_check_in, g_check_out)
    /\ \E got \in {"none", "first", "both"} :
        /\ g_check_in' = IF got = "none" THEN g_check_in ELSE CheckInDate
        /\ g_check_out' = IF got = "both" THEN CheckOutDate ELSE g_check_out
        /\ log' = Append(log, Tried("dates", 3, got = "both"))
    /\ pc' = "gsp_guest_url"
    /\ UNCHANGED <<browserVars, params, g_location, g_guests, sel, loadVars,
                   loopVars, saveVars>>

\* Line 88: both dates are there.
BoxSkipped ==
    /\ pc = "gsp_date_box"
    /\ ~DatesMissing(g_check_in, g_check_out)
    /\ pc' = "gsp_guest_url"
    /\ UNCHANGED <<browserVars, params, gspVars, loadVars, loopVars, saveVars>>

\* Lines 110-115: group_adults of the URL; NoneStr when the URL has none.
GuestsFromUrl ==
    /\ pc = "gsp_guest_url"
    /\ \E u \in {NoneStr} \cup {Str(s) : s \in GuestValues} :
        /\ g_guests' = u
        /\ log' = <<Tried("guests", 1, TruthyStr(u))>>
        /\ pc' = IF TruthyStr(u) THEN "gsp_finish" ELSE "gsp_guest_sel"
    /\ UNCHANGED <<browserVars, params, g_location, g_check_in, g_check_out, sel,
                   loadVars, loopVars, saveVars>>

\* Lines 124-133, one selector of the guest loop, given what input_value() and
\* inner_text() do for it: guests after the selector, and whether its text was
\* read.
TextRead(iv) == iv.exc = "none" /\ ~TruthyStr(iv.v)

GuestsAfterSelector(g, iv, it) ==
    IF iv.exc # "none" THEN g
    ELSE IF ~TextRead(iv) THEN iv.v
    ELSE IF it.exc # "none" THEN iv.v
    ELSE IF ~TruthyStr(it.v) THEN it.v
    ELSE IF FirstInt(it.v.s).ok THEN Str(FirstInt(it.v.s).s)
    ELSE it.v

\* Lines 130-131: the selector ends the loop: no call raised and guests is
\* non-empty.
GuestsFound(iv, it) ==
    /\ iv.exc = "none"
    /\ \/ TruthyStr(iv.v)
       \/ /\ it.exc = "none"
          /\ TruthyStr(it.v)
          /\ FirstInt(it.v.s).ok

GuestSelector ==
    /\ pc = "gsp_guest_sel"
    /\ \E iv \in {Ok(Str(s)) : s \in GuestValues} \cup {RaisedStr(e) : e \in Exceptions},
          it \in {Ok(Str(s)) : s \in GuestLabels} \cup {RaisedStr(e) : e \in Exceptions} :
        /\ g_guests' = GuestsAfterSelector(g_guests, iv, it)
        /\ log' =
             LET first == Append(log, Tried("guests", GuestInputStrategy(sel),
                                            iv.exc = "none" /\ TruthyStr(iv.v)))
             IN  IF TextRead(iv)
                 THEN Append(first, Tried("guests", GuestTextStrategy(sel),
                                          GuestsFound(iv, it)))
                 ELSE first
        /\ IF GuestsFound(iv, it) \/ sel = NumGuestSelectors
           THEN pc' = "gsp_finish" /\ sel' = 1
           ELSE pc' = pc /\ sel' = sel + 1
    /\ UNCHANGED <<browserVars, params, g_location, g_check_in, g_check_out,
                   loadVars, loopVars, saveVars>>

\* Line 149: what the handler of the whole function returns.
DefaultParams == <<UnknownLocation, Today, Tomorrow, 2>>

\* Lines 134-135.
GuestsOrDefault(g) == IF TruthyStr(g) THEN g.s ELSE <<"2">>
\* Lines 137-139 left out.
LocationAsFound(l) == l

\* Lines 137-139.
LocationOrDefault(l) == IF Truthy(l) THEN l ELSE UnknownLocation
\* Line 140 as "if not check_in": each date defaulted on its own.
CheckInOrOwnDefault(ci, co) == IF ~Truthy(ci) THEN Today ELSE ci

\* Lines 140-144.
CheckInOrDefault(ci, co) == IF DatesMissing(ci, co) THEN Today ELSE ci
CheckOutOrDefault(ci, co) == IF DatesMissing(ci, co) THEN Tomorrow ELSE co

\* The handler as if it defaulted the guests alone and kept what was resolved.
ParamsOnFaultKeepResolved(l, ci, co) ==
    <<LocationOrDefault(l), CheckInOrDefault(ci, co), CheckOutOrDefault(ci, co), 2>>

\* Lines 146-149: what the handler of the whole function returns, whatever
\* location and dates the function had when the exception was raised.
ParamsOnFault(l, ci, co) == DefaultParams

\* Lines 134-149: the defaults, then int(guests); a ValueError there is caught
\* by the handler of the whole function.
ReturnedParams(l, ci, co, g) ==
    IF IntParse(GuestsOrDefault(g)).ok
    THEN <<LocationOrDefault(l), CheckInOrDefault(ci, co),
           CheckOutOrDefault(ci, co), IntParse(GuestsOrDefault(g)).val>>
    ELSE ParamsOnFault(l, ci, co)

\* get_search_parameters returns to run (line 308).
ReturnParams ==
    /\ pc = "gsp_finish"
    /\ params' = ReturnedParams(g_location, g_check_in, g_check_out, g_guests)
    /\ pc' = "run_check_params"
    /\ UNCHANGED <<browserVars, gspVars, loadVars, loopVars, saveVars>>

(***************************************************************************)
(* load_all_hotels                                                         *)
(***************************************************************************)
\* What document.body.scrollHeight can be: 0 for a document with an empty body.
Heights == 0..MaxHeight

\* Lines 165-166: the locals of load_all_hotels at its first statement, and
\* after it has returned.
LoadLocalsGone ==
    /\ attempt' = 0
    /\ last_height' = 0
    /\ current_height' = 0
    /\ earlier_height' = 0
    /\ no_new_hotels_count' = 0
    /\ load_break' = FALSE

\* The loop as "while True": no cap on the rounds.
MoreRoundsNoCap(a) == TRUE

\* for attempt in range(max_attempts): a round follows a rounds completed.
MoreRounds(a) == a < max_attempts

\* Lines 193-194 left out: a round that measured another extent leaves the
\* counter as it is.
NextStallCountNoReset(cur, last, n) == IF cur = last THEN n + 1 ELSE n

\* Lines 188-194: the stall counter after a round that measured cur.
NextStallCount(cur, last, n) == IF cur = last THEN n + 1 ELSE 0

\* Lines 188-192: the round ends the loop through break.
StallBreak(cur, last, n) ==
    cur = last /\ NextStallCount(cur, last, n) >= stall_threshold

\* One round of the loop (lines 169-196): scroll, click "Load more results" when
\* it shows, measure document.body.scrollHeight.
LoadRound ==
    /\ pc = "load_round"
    /\ MoreRounds(attempt)
    /\ \E measured \in Heights :
        /\ attempt' = attempt + 1
        /\ current_height' = measured
        /\ no_new_hotels_count' =
               NextStallCount(measured, last_height, no_new_hotels_count)
        /\ IF StallBreak(measured, last_height, no_new_hotels_count)
           THEN /\ load_break' = TRUE
                /\ last_height' = last_height
                /\ earlier_height' = earlier_height
                /\ pc' = "load_return"
           ELSE /\ load_break' = FALSE
                /\ last_height' = measured
                /\ earlier_height' = last_height
                /\ pc' = IF MoreRounds(attempt + 1) THEN "load_round"
                         ELSE "load_return"
    /\ UNCHANGED <<browserVars, params, gspVars, loopVars, saveVars>>

\* page.evaluate raises in a round (lines 171, 184): nothing in load_all_hotels
\* catches it, run's handler does.
LoadRoundRaises ==
    /\ pc = "load_round"
    /\ MoreRounds(attempt)
    /\ pc' = "run_except"
    /\ run_exc' = "Error"
    /\ LoadLocalsGone
    /\ UNCHANGED <<context_closed, browser_closed, run_raised, params, gspVars,
                   loopVars, saveVars>>

(***************************************************************************)
(* save_to_database                                                        *)
(***************************************************************************)
EmptyTx == [sessions |-> <<>>, hotels |-> <<>>]

\* The id of the last row the table already holds, as if the key were not
\* advanced by the insert.
StaleSessionId(d, t) == Len(d.sessions) + Len(t.sessions)

\* AUTOINCREMENT: one more than the largest id the table holds (rows are never
\* deleted), counting the connection's own uncommitted rows.
NextSessionId(d, t) == Len(d.sessions) + Len(t.sessions) + 1
NextHotelId(d, t) == Len(d.hotels) + Len(t.hotels) + 1

\* Lines 248-252: the row of search_sessions.
SessionRow(id, p) ==
    [session_id |-> id, location |-> p[1], check_in_date |-> p[2],
     check_out_date |-> p[3], guests |-> p[4]]

\* Lines 258-262: the row of hotels.
HotelRow(id, sid, h) ==
    [hotel_id |-> id, session_id |-> sid, name |-> h.name, price |-> h.price,
     rating |-> h.rating, address |-> h.address, link |-> h.link]

\* conn.commit(): the uncommitted rows become part of the file.
Commit(d, t) ==
    [sessions |-> d.sessions \o t.sessions, hotels |-> d.hotels \o t.hotels]

\* The handler with conn.commit() where conn.rollback() is.
AfterRollbackCommits(d, t) == Commit(d, t)

\* Lines 268-270: what the file holds after the handler's conn.rollback().
AfterRollback(d, t) == d

\* Line 243: sqlite3.connect('hotels.db').
SaveConnect ==
    /\ pc = "save_connect"
    /\ pc' = "save_session"
    /\ UNCHANGED <<browserVars, params, gspVars, loadVars, loopVars, saveVars>>

\* Line 243 raises: the call is outside the try, the exception leaves
\* save_to_database and run's handler catches it.
SaveConnectRaises ==
    /\ pc = "save_connect"
    /\ pc' = "run_except"
    /\ run_exc' = "Error"
    /\ UNCHANGED <<context_closed, browser_closed, run_raised, params, gspVars, loadVars,
                   loopVars, saveVars>>

\* Lines 248-254: INSERT INTO search_sessions, then session_id = lastrowid.
SaveInsertSession ==
    /\ pc = "save_session"
    /\ session_id' = NextSessionId(db, tx)
    /\ tx' = [tx EXCEPT !.sessions =
                 Append(@, SessionRow(NextSessionId(db, tx), params))]
    /\ pc' = "save_hotels"
    /\ UNCHANGED <<browserVars, params, gspVars, loadVars, loopVars, db, written,
                   write_faulted, save_calls>>

\* Lines 257-262: INSERT INTO hotels for the next record of the batch.
SaveInsertHotel ==
    /\ pc = "save_hotels"
    /\ written < Len(hotels_data)
    /\ tx' = [tx EXCEPT !.hotels =
                 Append(@, HotelRow(NextHotelId(db, tx), session_id,
                                    hotels_data[written + 1]))]
    /\ written' = written + 1
    /\ UNCHANGED <<pc, browserVars, params, gspVars, loadVars, loopVars, db, session_id,
                   write_faulted, save_calls>>

\* Line 264: conn.commit().
SaveCommit ==
    /\ pc = "save_hotels"
    /\ written = Len(hotels_data)
    /\ db' = Commit(db, tx)
    /\ tx' = EmptyTx
    /\ pc' = "save_finally"
    /\ UNCHANGED <<browserVars, params, gspVars, loadVars, loopVars, session_id, written,
                   write_faulted, save_calls>>

\* A statement of the try block raises (the database is locked, the disk is
\* full, a constraint fails): the session insert, a hotel insert or the commit.
\* Lines 268-270: the handler prints the error and rolls back.
SaveStatementRaises ==
    /\ pc \in {"save_session", "save_hotels"}
    /\ write_faulted' = TRUE
    /\ db' = AfterRollback(db, tx)
    /\ tx' = EmptyTx
    /\ pc' = "save_finally"
    /\ UNCHANGED <<browserVars, params, gspVars, loadVars, loopVars, session_id, written,
                   save_calls>>

\* Lines 271-272: conn.close(), which drops what is uncommitted; then
\* save_to_database returns to run (nothing is re-raised).
SaveClose ==
    /\ pc = "save_finally"
    /\ tx' = EmptyTx
    /\ session_id' = 0
    /\ written' = 0
    /\ pc' = "run_close"
    /\ UNCHANGED <<browserVars, params, gspVars, loadVars, loopVars, db,
                   write_faulted, save_calls>>

(***************************************************************************)
(* run                                                                     *)
(***************************************************************************)
\* The cards of the result page the harvest loop is tried on: one that reads
\* well, one that reads well with the same name and price (a duplicate listing)
\* but no link, address or rating, and one whose name times out.
GoodCard ==
    [name |-> Ok("Hotel A"), price |-> Ok("US$120"),
     href |-> Ok(Str(<<"/", "a">>)), address |-> Ok("Paris"),
     rating |-> Ok(Str(<<"S", "c", "o", "r", "e", "d", " ", "7", ".", "9">>))]
BareCard ==
    [name |-> Ok("Hotel B"), price |-> Ok("US$95"),
     href |-> RaisedStr("Timeout"), address |-> Raised("Timeout"),
     rating |-> RaisedStr("Timeout")]
DeadCard ==
    [name |-> Raised("Timeout"), price |-> Ok("US$120"),
     href |-> Ok(Str(<<"/", "a">>)), address |-> Ok("Paris"),
     rating |-> Ok(Str(<<"8">>))]
RunCards == {GoodCard, BareCard, DeadCard}

\* What hotel holds before the loop has taken a card.
NoCard ==
    [name |-> Raised("Error"), price |-> Raised("Error"),
     href |-> RaisedStr("Error"), address |-> Raised("Error"),
     rating |-> RaisedStr("Error")]

\* Line 330: "if data".
IsData(d) == d.present

\* The counter as it would be with line 333 ("failed_attempts = 0") left out.
NextFailedAttemptsNoReset(d, n) == IF IsData(d) THEN n ELSE n + 1

\* Lines 330-335: the consecutive-failure counter after an item.
NextFailedAttempts(d, n) == IF IsData(d) THEN 0 ELSE n + 1

\* Line 336.
BreakerTrips(n) == n >= max_failed_attempts

\* Line 331 with a check for a record already in the batch.
NextBatchDedup(batch, d) ==
    IF IsData(d) /\ \A k \in 1..Len(batch) : batch[k] # d
    THEN Append(batch, d) ELSE batch

\* Lines 330-331: the batch after an item.
NextBatch(batch, d) == IF IsData(d) THEN Append(batch, d) ELSE batch

\* Line 344 left out: the batch is saved whatever it holds.
ShouldSaveAlways(batch) == TRUE

\* Line 344: "if hotels_data".
ShouldSave(batch) == batch # <<>>

\* Line 309: all([location, check_in, check_out, guests]).
AllParams(p) == Truthy(p[1]) /\ Truthy(p[2]) /\ Truthy(p[3]) /\ p[4] # 0

\* Lines 276-280: create_database() (CREATE TABLE IF NOT EXISTS, which leaves
\* the rows alone), then the browser, its context and the page.
Launch ==
    /\ pc = "start"
    /\ pc' = "navigate"
    /\ UNCHANGED <<browserVars, params, gspVars, loadVars, loopVars, saveVars>>

\* Lines 276-280 raise (no database file, no browser): nothing catches it.
LaunchRaises ==
    /\ pc = "start"
    /\ run_raised' = TRUE
    /\ pc' = "done"
    /\ UNCHANGED <<context_closed, browser_closed, run_exc, params, gspVars, loadVars,
                   loopVars, saveVars>>

\* Lines 283-297: the page loads; the cookie button is clicked or not, and a
\* failure there is passed over.
Navigate ==
    /\ pc = "navigate"
    /\ pc' = "wait_results"
    /\ UNCHANGED <<browserVars, params, gspVars, loadVars, loopVars, saveVars>>

\* Lines 286-290: the page does not load; run closes and returns.
NavigateRaises ==
    /\ pc = "navigate"
    /\ context_closed' = context_closed + 1
    /\ browser_closed' = browser_closed + 1
    /\ pc' = "done"
    /\ UNCHANGED <<run_raised, run_exc, params, gspVars, loadVars, loopVars, saveVars>>

\* Line 304: the result cards appear within 30 s; get_search_parameters is
\* called.
WaitResults ==
    /\ pc = "wait_results"
    /\ pc' = "gsp_loc_sel"
    /\ UNCHANGED <<browserVars, params, gspVars, loadVars, loopVars, saveVars>>

\* Line 304 times out.
WaitResultsRaises ==
    /\ pc = "wait_results"
    /\ run_exc' = "Timeout"
    /\ pc' = "run_except"
    /\ UNCHANGED <<context_closed, browser_closed, run_raised, params, gspVars, loadVars,
                   loopVars, saveVars>>

\* Lines 309-316: run gives up when a parameter is falsy, else it calls
\* load_all_hotels.
CheckParams ==
    /\ pc = "run_check_params"
    /\ IF AllParams(params)
       THEN /\ pc' = "load_round"
            /\ UNCHANGED <<context_closed, browser_closed>>
       ELSE /\ context_closed' = context_closed + 1
            /\ browser_closed' = browser_closed + 1
            /\ pc' = "done"
    /\ GspLocalsGone
    /\ UNCHANGED <<run_raised, run_exc, params, loadVars, loopVars, saveVars>>

\* Lines 319-326: load_all_hotels has returned; the cards are listed and the
\* loop's variables set.
CollectStart ==
    /\ pc = "load_return"
    /\ \E n \in 0..MaxItems : count' = n
    /\ LoadLocalsGone
    /\ pc' = "run_loop"
    /\ UNCHANGED <<browserVars, params, gspVars, visited, idx, hotel, data,
                   hotels_data, failed_attempts, loop_break, saveVars>>

\* Lines 319-320, 328: counting or listing the cards raises.
CollectStartRaises ==
    /\ pc = "load_return"
    /\ run_exc' = "Error"
    /\ pc' = "run_except"
    /\ LoadLocalsGone
    /\ UNCHANGED <<context_closed, browser_closed, run_raised, params, gspVars,
                   loopVars, saveVars>>

\* What the loop's variables hold outside the loop.
LoopLocalsGone ==
    /\ count' = 0
    /\ visited' = <<>>
    /\ idx' = 0
    /\ hotel' = NoCard
    /\ data' = NoData
    /\ failed_attempts' = 0
    /\ loop_break' = FALSE

\* Lines 328-339: the next card goes to collect_hotel_data; what its reads do
\* shows only now.
LoopStep ==
    /\ pc = "run_loop"
    /\ idx < count
    /\ ~loop_break
    /\ \E card \in RunCards :
        /\ visited' = Append(visited, card)
        /\ hotel' = card
        /\ data' = collect_hotel_data(card)
        /\ hotels_data' = NextBatch(hotels_data, collect_hotel_data(card))
        /\ failed_attempts' =
               NextFailedAttempts(collect_hotel_data(card), failed_attempts)
        /\ loop_break' =
               (/\ ~IsData(collect_hotel_data(card))
                /\ BreakerTrips(NextFailedAttempts(collect_hotel_data(card),
                                                   failed_attempts)))
    /\ idx' = idx + 1
    /\ UNCHANGED <<pc, browserVars, params, gspVars, loadVars, count, saveVars>>

\* Lines 341-353: the loop is over; a batch that is not empty goes to
\* save_to_database. Nothing reads the loop's other variables again.
LoopEnd ==
    /\ pc = "run_loop"
    /\ idx = count \/ loop_break
    /\ IF ShouldSave(hotels_data)
       THEN /\ save_calls' = Append(save_calls, hotels_data)
            /\ pc' = "save_connect"
       ELSE /\ save_calls' = save_calls
            /\ pc' = "run_close"
    /\ LoopLocalsGone
    /\ UNCHANGED <<browserVars, params, gspVars, loadVars, hotels_data, db, tx,
                   session_id, written, write_faulted>>

\* The handler as if it ended with "raise": the exception leaves run and lines
\* 358-359 are not reached.
RunExceptReraises ==
    /\ pc = "run_except"
    /\ run_raised' = TRUE
    /\ pc' = "done"
    /\ UNCHANGED <<context_closed, browser_closed, run_exc, params, gspVars,
                   loadVars, loopVars, saveVars>>

\* Lines 355-356: "except Exception" prints the error.
RunExcept ==
    /\ pc = "run_except"
    /\ pc' = "run_close"
    /\ UNCHANGED <<browserVars, params, gspVars, loadVars, loopVars, saveVars>>

\* Lines 358-359.
Close ==
    /\ pc = "run_close"
    /\ context_closed' = context_closed + 1
    /\ browser_closed' = browser_closed + 1
    /\ pc' = "done"
    /\ UNCHANGED <<run_raised, run_exc, params, gspVars, loadVars, loopVars, saveVars>>

(***************************************************************************)
(* The script as a whole                                                   *)
(***************************************************************************)
\* hotels.db as earlier runs left it: n sessions of one hotel each.
PriorDb(n) ==
    [sessions |-> [i \in 1..n |->
                      SessionRow(i, <<"Rome", "2026-10-01", "2026-10-02", 2>>)],
     hotels |-> [i \in 1..n |-> HotelRow(i, i, collect_hotel_data(GoodCard))]]

InitAt(position) ==
    /\ pc = position
    /\ context_closed = 0
    /\ browser_closed = 0
    /\ run_raised = FALSE
    /\ run_exc = "none"
    /\ params = <<>>
    /\ g_location = None
    /\ g_check_in = None
    /\ g_check_out = None
    /\ g_guests = NoneStr
    /\ sel = 1
    /\ log = <<>>
    /\ attempt = 0
    /\ last_height = 0
    /\ current_height = 0
    /\ earlier_height = 0
    /\ no_new_hotels_count = 0
    /\ load_break = FALSE
    /\ count = 0
    /\ visited = <<>>
    /\ idx = 0
    /\ data = NoData
    /\ hotels_data = <<>>
    /\ failed_attempts = 0
    /\ loop_break = FALSE
    /\ tx = EmptyTx
    /\ session_id = 0
    /\ written = 0
    /\ write_faulted = FALSE
    /\ save_calls = <<>>

\* python main.py: run(playwright) on a database earlier runs may have filled.
Init ==
    /\ InitAt("start")
    /\ hotel = NoCard
    /\ \E n \in 0..MaxPriorSessions : db = PriorDb(n)

Next ==
    \/ Launch
    \/ LaunchRaises
    \/ Navigate
    \/ NavigateRaises
    \/ WaitResults
    \/ WaitResultsRaises
    \/ LocationSelector
    \/ LocationFromUrl
    \/ LocationKept
    \/ DatesFromUrl
    \/ DatesFromButtons
    \/ ButtonsSkipped
    \/ DatesFromBox
    \/ BoxSkipped
    \/ GuestsFromUrl
    \/ GuestSelector
    \/ ReturnParams
    \/ CheckParams
    \/ LoadRound
    \/ LoadRoundRaises
    \/ CollectStart
    \/ CollectStartRaises
    \/ LoopStep
    \/ LoopEnd
    \/ SaveConnect
    \/ SaveConnectRaises
    \/ SaveInsertSession
    \/ SaveInsertHotel
    \/ SaveCommit
    \/ SaveStatementRaises
    \/ SaveClose
    \/ RunExcept
    \/ Close

Spec == Init /\ [][Next]_vars

(***************************************************************************)
(* get_search_parameters on its own: one call, on any page.                *)
(***************************************************************************)
InitCtx ==
    /\ InitAt("gsp_loc_sel")
    /\ hotel = NoCard
    /\ db = PriorDb(0)

NextCtx ==
    \/ LocationSelector
    \/ LocationFromUrl
    \/ LocationKept
    \/ DatesFromUrl
    \/ DatesFromButtons
    \/ ButtonsSkipped
    \/ DatesFromBox
    \/ BoxSkipped
    \/ GuestsFromUrl
    \/ GuestSelector
    \/ ReturnParams

SpecCtx == InitCtx /\ [][NextCtx]_vars

(***************************************************************************)
(* collect_hotel_data on its own: one call, on any card.                   *)
(***************************************************************************)
\* A card is what each of its five reads does.
TextReads(values) == {Ok(v) : v \in values} \cup {Raised(e) : e \in Exceptions}
StrReads(values) == {Ok(v) : v \in values} \cup {RaisedStr(e) : e \in Exceptions}

Hrefs ==
    {NoneStr, Str(<<>>), Str(<<"/", "a">>),
     Str(<<"h", "t", "t", "p", "s", ":", "/", "/", "b", ".", "c">>)}
RatingTexts ==
    {Str(<<>>), Str(<<"N", "e", "w">>), Str(<<"8">>),
     Str(<<"8", ".", " ", "O", "K">>),
     Str(<<"S", "c", "o", "r", "e", "d", " ", "7", ".", "9">>)}

Cards ==
    [name : TextReads({"Hotel A"}), price : TextReads({"US$120"}),
     href : StrReads(Hrefs), address : TextReads({"Paris"}),
     rating : StrReads(RatingTexts)]

InitItem ==
    /\ InitAt("collect_call")
    /\ hotel \in Cards
    /\ db = PriorDb(0)

\* Lines 198-239: the call and its return.
CollectCall ==
    /\ pc = "collect_call"
    /\ data' = collect_hotel_data(hotel)
    /\ pc' = "collect_return"
    /\ UNCHANGED <<browserVars, params, gspVars, loadVars, count, visited, idx, hotel,
                   hotels_data, failed_attempts, loop_break, saveVars>>

NextItem == CollectCall

SpecItem == InitItem /\ [][NextItem]_vars

(***************************************************************************)
(* The harvest loop's breaker                                              *)
(***************************************************************************)
\* collect_hotel_data gives nothing for the card: its name or its price cannot
\* be read.
Failed(card) == card.name.exc # "none" \/ card.price.exc # "none"

\* How many cards at the end of v failed.
RECURSIVE TrailingFailures(_)
TrailingFailures(v) ==
    IF v = <<>> \/ ~Failed(v[Len(v)]) THEN 0
    ELSE 1 + TrailingFailures(SubSeq(v, 1, Len(v) - 1))

\* v holds max_failed_attempts failed cards in a row.
FailuresInARow(v) ==
    \E k \in max_failed_attempts..Len(v) :
        \A j \in (k - max_failed_attempts + 1)..k : Failed(v[j])

\* The loop of run has ended and run has not gone on yet.
LoopOver == pc = "run_loop" /\ (idx = count \/ loop_break)

\* C1 as stated: the loop stops before it has visited every item if and only if
\* 5 consecutive extractions have failed.
C1_StopsShortIffFiveFail ==
    LoopOver => ((idx < count) <=> FailuresInARow(visited))

\* C1, amended: the counter is the number of failures since the last success (a
\* success resets it to 0), the loop ends through its break if and only if 5
\* consecutive extractions have failed, and it then leaves items unvisited
\* exactly when the fifth of them was not the last item of the result set.
C1_Breaker ==
    pc = "run_loop" =>
        /\ idx = Len(visited)
        /\ failed_attempts = TrailingFailures(visited)
        /\ loop_break <=> FailuresInARow(visited)
        /\ LoopOver => ((idx < count) <=> (FailuresInARow(visited) /\ idx # count))
        /\ ~LoopOver => ~FailuresInARow(visited)

\* C1: five extractions in a row have failed and the loop has stopped with
\* items left.
C1_Witness ==
    /\ LoopOver
    /\ loop_break
    /\ idx < count
    /\ FailuresInARow(visited)

(***************************************************************************)
(* load_all_hotels ends                                                    *)
(***************************************************************************)
\* C2: load_all_hotels never runs more than 100 rounds, whatever heights the
\* page reports: once 100 rounds are done it has left its loop.
C2_LoadEndsWithinCap ==
    /\ attempt <= max_attempts
    /\ pc = "load_round" => attempt < max_attempts

\* C2: the height changed in every one of 100 rounds and the function returned
\* without a break.
C2_Witness ==
    /\ pc = "load_return"
    /\ attempt = max_attempts
    /\ ~load_break
    /\ no_new_hotels_count = 0

(***************************************************************************)
(* collect_hotel_data keeps what it can                                    *)
(***************************************************************************)
\* C3: collect_hotel_data returns None if and only if the read of name or of
\* price raises; with both read, it returns a record whatever the reads of link,
\* address and rating do, and each of these three fields is what its own read
\* gives, whatever the other two reads do.
C3_DiscardsOnlyOnNameOrPrice ==
    pc = "collect_return" =>
        /\ ~data.present <=> (hotel.name.exc # "none" \/ hotel.price.exc # "none")
        /\ data.present =>
             /\ data.name = hotel.name.v
             /\ data.price = hotel.price.v
             /\ \A other \in Cards :
                  (other.name = hotel.name /\ other.price = hotel.price) =>
                      /\ collect_hotel_data(other).present
                      /\ other.href = hotel.href =>
                             collect_hotel_data(other).link = data.link
                      /\ other.address = hotel.address =>
                             collect_hotel_data(other).address = data.address
                      /\ other.rating = hotel.rating =>
                             collect_hotel_data(other).rating = data.rating

\* C3: the reads of link, address and rating all raised and a record came back.
C3_Witness ==
    /\ pc = "collect_return"
    /\ data.present
    /\ hotel.href.exc # "none"
    /\ hotel.address.exc # "none"
    /\ hotel.rating.exc # "none"

(***************************************************************************)
(* save_to_database                                                        *)
(***************************************************************************)
\* The file holds what n earlier runs left, and after it the rows given.
HoldsBeyond(n, sessionRows, hotelRows) ==
    /\ Len(db.sessions) = n + sessionRows
    /\ Len(db.hotels) = n + hotelRows
    /\ SubSeq(db.sessions, 1, n) = PriorDb(n).sessions
    /\ SubSeq(db.hotels, 1, n) = PriorDb(n).hotels

\* C4: the writes of a harvest are all-or-nothing. The file never holds a
\* session row of this harvest with fewer hotel rows than the batch has, and
\* once a write has raised it holds no row of this harvest at all.
C4_AllOrNothing ==
    \E n \in 0..MaxPriorSessions :
        \/ HoldsBeyond(n, 0, 0)
        \/ /\ ~write_faulted
           /\ hotels_data # <<>>
           /\ HoldsBeyond(n, 1, Len(hotels_data))
           /\ db.sessions[n + 1].location # "Rome"

\* C4: the insert of the last record of a batch of several has raised, after
\* the session row and the records before it were inserted.
C4_Witness ==
    /\ pc = "save_finally"
    /\ write_faulted
    /\ session_id # 0
    /\ Len(hotels_data) >= 2
    /\ written = Len(hotels_data) - 1

\* C5: after a write of save_to_database has raised, the exception reaches run
\* (its handler catches it, or it leaves run): the run does not end as it does
\* after a save that worked.
C5_FaultReachesRun ==
    (pc \in {"run_close", "done"} /\ write_faulted) =>
        (run_exc # "none" \/ run_raised)

(***************************************************************************)
(* get_search_parameters                                                   *)
(***************************************************************************)
\* The numbers the guest strategies can give.
GuestNumbers ==
    {IntParse(s).val : s \in {g \in GuestValues : IntParse(g).ok}}
        \cup {IntParse(FirstInt(s).s).val : s \in {g \in GuestLabels : FirstInt(g).ok}}

\* get_search_parameters has returned to run.
Returned == pc = "run_check_params"

\* C6: get_search_parameters returns four values, none of them None or empty:
\* a location, a check-in and a check-out that a strategy read from the page or
\* the default ("Unknown Location", today, tomorrow), and a number of guests
\* that a strategy read or 2.
C6_NoAbsentField ==
    Returned =>
        /\ Len(params) = 4
        /\ params[1] \in {InputLocation, UrlLocation, UnknownLocation}
        /\ params[2] \in {CheckInDate, Today}
        /\ params[3] \in {CheckOutDate, Tomorrow}
        /\ params[4] \in GuestNumbers \cup {2}

\* C6: no strategy gave anything and the four defaults came back.
C6_Witness ==
    /\ Returned
    /\ ~Truthy(g_location)
    /\ ~Truthy(g_check_in)
    /\ ~Truthy(g_check_out)
    /\ ~TruthyStr(g_guests)
    /\ params = DefaultParams

\* C7: the dates returned are the two dates of the page or the pair (today,
\* tomorrow); a default never comes with a date of the page.
C7_DatesDefaultAsPair ==
    Returned =>
        <<params[2], params[3]>> \in
            {<<CheckInDate, CheckOutDate>>, <<Today, Tomorrow>>}

\* C7: the strategies found the check-in but not the check-out, and both dates
\* came back as defaults.
C7_Witness ==
    /\ Returned
    /\ Truthy(g_check_in)
    /\ ~Truthy(g_check_out)
    /\ TruthyStr(g_guests)
    /\ IntParse(g_guests.s).ok
    /\ params[2] = Today
    /\ params[3] = Tomorrow

\* C8: in each chain the strategies are tried in the order the code lists them
\* (location: the four inputs, then the URL; dates: URL, buttons, box; guests:
\* URL, then each selector's value and text), and none is tried after one that
\* produced a non-empty value.
C8_ShortCircuit ==
    \A p \in 1..Len(log) : \A q \in 1..Len(log) :
        p < q =>
            /\ log[p].chain = log[q].chain
            /\ log[p].strategy < log[q].strategy
            /\ ~log[p].produced

\* C8: the second location input produced the location after the first gave
\* nothing, and the chain has moved on with the other strategies untried.
C8_Witness ==
    /\ pc = "gsp_date_url"
    /\ Len(log) = 2
    /\ ~log[1].produced
    /\ log[2].produced
    /\ log[2].strategy = 2

C10_SavedOnceIfNotEmpty ==
    /\ pc = "run_loop" => save_calls = <<>>
    /\ pc # "run_loop" =>
         save_calls = IF hotels_data = <<>> THEN <<>> ELSE <<hotels_data>>
    /\ (LoopOver /\ count >= max_failed_attempts
          /\ \A k \in 1..Len(visited) : Failed(visited[k])) =>
         /\ idx = max_failed_attempts
         /\ hotels_data = <<>>

\* C10: the run is over and save_to_database was called once, with a batch of
\* two records.
C10_Witness ==
    /\ pc = "done"
    /\ Len(hotels_data) = 2
    /\ save_calls = <<hotels_data>>

(***************************************************************************)
(* The fields of a record                                                  *)
(***************************************************************************)
\* s begins with t.
StartsWith(s, t) == Len(s) >= Len(t) /\ SubSeq(s, 1, Len(t)) = t

\* s is an absolute URL: it starts with the scheme http:// or https://.
IsAbsoluteUrl(s) ==
    \/ StartsWith(s, <<"h", "t", "t", "p", ":", "/", "/">>)
    \/ StartsWith(s, <<"h", "t", "t", "p", "s", ":", "/", "/">>)

\* C11: the link of every record collect_hotel_data returns is an absolute URL or
\* the sentinel "No link available": an href without a scheme comes back with
\* https://www.booking.com before it, and a missing (None) or empty href comes
\* back as the sentinel.
C11_LinkAbsoluteOrSentinel ==
    (pc = "collect_return" /\ data.present) =>
        /\ ~data.link.none
        /\ data.link.s = NoLink \/ IsAbsoluteUrl(data.link.s)
        /\ (hotel.href.exc = "none" /\ TruthyStr(hotel.href.v)
              /\ ~IsAbsoluteUrl(hotel.href.v.s)) =>
               data.link.s = Origin \o hotel.href.v.s
        /\ (hotel.href.exc = "none" /\ ~TruthyStr(hotel.href.v)) =>
               data.link.s = NoLink

\* s is a numeral: digits, or digits, a point and digits.
IsNumeral(s) ==
    LET n == DigitRun(s, 1)
    IN  /\ n >= 1
        /\ \/ n = Len(s)
           \/ /\ n + 1 < Len(s)
              /\ s[n + 1] = "."
              /\ DigitRun(s, n + 2) = Len(s) - n - 1

\* The first numeral of s: the longest one that starts at the first digit of s.
FirstNumeral(s) ==
    LET p == FirstDigit(s, 1)
        ends == {e \in p..Len(s) : IsNumeral(SubSeq(s, p, e))}
    IN  SubSeq(s, p, CHOOSE e \in ends : \A f \in ends : f <= e)

\* C12: the rating of a record whose rating text was read is "No rating" exactly
\* when the text holds no digit, and otherwise the first numeral of the text
\* ("Scored 7.9" gives "7.9"): always the sentinel or a well-formed integer or
\* decimal numeral.
C12_NumeralOrSentinel ==
    (pc = "collect_return" /\ data.present /\ hotel.rating.exc = "none") =>
        LET text == hotel.rating.v.s
        IN  /\ data.rating = NoRating <=> FirstDigit(text, 1) = 0
            /\ data.rating = NoRating \/ IsNumeral(data.rating)
            /\ FirstDigit(text, 1) # 0 => data.rating = FirstNumeral(text)

(***************************************************************************)
(* What a save that worked leaves in the file                              *)
(***************************************************************************)
\* save_to_database was called and has come to its end with no statement having
\* raised.
SavedClean ==
    /\ pc \in {"save_finally", "run_close", "done"}
    /\ save_calls # <<>>
    /\ ~write_faulted
    /\ run_exc = "none"

\* C13: after a save in which no write raised, the file holds what it held
\* before and, beyond that, one session row with the harvest's location, dates
\* and guests, and one hotel row for each record of the batch, in the order of
\* the batch, each with the new session's id.
C13_OneSessionAndItsHotels ==
    SavedClean =>
        \E n \in 0..MaxPriorSessions :
            /\ HoldsBeyond(n, 1, Len(hotels_data))
            /\ db.sessions[n + 1] =
                 [session_id |-> n + 1, location |-> params[1],
                  check_in_date |-> params[2], check_out_date |-> params[3],
                  guests |-> params[4]]
            /\ \A k \in 1..Len(hotels_data) :
                 /\ db.hotels[n + k].session_id = n + 1
                 /\ db.hotels[n + k].hotel_id = n + k
                 /\ db.hotels[n + k].name = hotels_data[k].name
                 /\ db.hotels[n + k].price = hotels_data[k].price
                 /\ db.hotels[n + k].rating = hotels_data[k].rating
                 /\ db.hotels[n + k].address = hotels_data[k].address
                 /\ db.hotels[n + k].link = hotels_data[k].link

\* C13: a batch of two different records was saved, with no write raising, to a
\* file that held a session already.
C13_Witness ==
    /\ SavedClean
    /\ pc = "save_finally"
    /\ Len(hotels_data) = 2
    /\ hotels_data[1] # hotels_data[2]
    /\ Len(db.sessions) = 2
    /\ Len(db.hotels) = 3

(***************************************************************************)
(* The number of guests                                                    *)
(***************************************************************************)
\* C14: the number of guests get_search_parameters returns is an integer of at
\* least 1, whatever group_adults in the URL, the guests input and the occupancy
\* label carry.
C14_GuestsPositive ==
    Returned => (params[4] \in Int /\ params[4] >= 1)

(***************************************************************************)
(* load_all_hotels and the stall counter                                   *)
(***************************************************************************)
\* load_all_hotels is in its loop or has just left it.
Loading == pc \in {"load_round", "load_return"}

\* C15 as stated: load_all_hotels stops before the cap of 100 rounds if and only
\* if the stall counter reaches 2, which takes two rounds in a row that each
\* measured the extent it was compared with; one unchanged reading does not end
\* the loading.
C15_StopsEarlyIffStalledTwice ==
    pc = "load_return" =>
        /\ (attempt < max_attempts) <=> (no_new_hotels_count = stall_threshold)
        /\ no_new_hotels_count = stall_threshold =>
               (current_height = last_height /\ last_height = earlier_height)
        /\ no_new_hotels_count = 1 => attempt = max_attempts

\* C15, amended: load_all_hotels leaves its loop through the break if and only
\* if the stall counter reaches 2, and otherwise only after 100 rounds. The
\* counter counts the rounds in a row whose extent equals the one it is compared
\* with (the extent of the round before, 0 for the first round): a round that
\* measures another extent sets it to 0, so one unchanged reading never ends the
\* loading. The break may fall on round 100 itself.
C15_StallBreak ==
    Loading =>
        /\ no_new_hotels_count \in 0..stall_threshold
        /\ load_break <=> no_new_hotels_count = stall_threshold
        /\ load_break => pc = "load_return"
        /\ (pc = "load_return" /\ ~load_break) => attempt = max_attempts
        /\ load_break =>
               /\ attempt >= stall_threshold
               /\ current_height = last_height
               /\ last_height = earlier_height
        /\ no_new_hotels_count = 1 =>
               (current_height = last_height /\ last_height = earlier_height)
        /\ (no_new_hotels_count = 0 /\ attempt >= 1) =>
               (current_height = last_height /\ last_height # earlier_height)

\* C15: the extent changed, then stayed the same for two rounds, and the loading
\* ended before the cap.
C15_Witness ==
    /\ pc = "load_return"
    /\ load_break
    /\ attempt >= 4
    /\ attempt < max_attempts
    /\ current_height > 0

(***************************************************************************)
(* The order of the batch                                                  *)
(***************************************************************************)
\* The records of the cards of v that can be read, in the order of v.
RECURSIVE Extracted(_)
Extracted(v) ==
    IF v = <<>> THEN <<>>
    ELSE LET rest == Extracted(SubSeq(v, 1, Len(v) - 1))
             last == v[Len(v)]
         IN  IF Failed(last) THEN rest
             ELSE Append(rest, [present |-> TRUE,
                                name |-> last.name.v,
                                price |-> last.price.v,
                                rating |-> RatingOf(last.rating),
                                address |-> AddressOf(last.address),
                                link |-> LinkOf(last.href)])

\* C16: the loop hands each card to collect_hotel_data once, in document order
\* (after i steps it has taken the first i cards, the last of them the i-th, a
\* failed card not being taken again), and the batch is the records of the cards
\* that could be read, in that order, duplicates included.
C16_BatchIsExtractedInOrder ==
    pc = "run_loop" =>
        /\ idx = Len(visited)
        /\ idx <= count
        /\ idx > 0 => (hotel = visited[idx] /\ data = collect_hotel_data(hotel))
        /\ hotels_data = Extracted(visited)
        /\ Len(hotels_data) + Cardinality({k \in 1..idx : Failed(visited[k])}) = idx

\* C16: the loop is over; a card failed, and the batch holds the same record
\* twice with another one between.
C16_Witness ==
    /\ LoopOver
    /\ \E k \in 1..Len(visited) : Failed(visited[k])
    /\ Len(hotels_data) = 3
    /\ hotels_data[1] = hotels_data[3]
    /\ hotels_data[2] # hotels_data[1]

(***************************************************************************)
(* The handler of get_search_parameters                                    *)
(***************************************************************************)
\* The text the guest strategies left cannot be converted: int(guests) raises
\* ValueError outside every strategy's own handler.
GuestsNotANumber == TruthyStr(g_guests) /\ ~IntParse(g_guests.s).ok

\* C17: when int(guests) raises, get_search_parameters still returns, and what
\* it returns is ("Unknown Location", today, tomorrow, 2), whatever location and
\* dates the strategies had found.
C17_FaultGivesAllDefaults ==
    /\ pc = "gsp_finish" => ENABLED ReturnParams
    /\ (Returned /\ GuestsNotANumber) =>
         params = <<"Unknown Location", Today, Tomorrow, 2>>

\* C17: the location and both dates were found, the guests text was "x", and the
\* four defaults came back.
C17_Witness ==
    /\ Returned
    /\ g_location = InputLocation
    /\ g_check_in = CheckInDate
    /\ g_check_out = CheckOutDate
    /\ g_guests = Str(<<"x">>)
    /\ params[1] = UnknownLocation
    /\ params[2] = Today

(***************************************************************************)
(* run after get_search_parameters                                         *)
(***************************************************************************)
\* C18: whatever get_search_parameters returns, run goes on to load_all_hotels:
\* the step run takes after the call is never the one that gives the run up.
C18_AlwaysLoads ==
    [][pc = "run_check_params" => pc' = "load_round"]_vars

(***************************************************************************)
(* run closes what it opened                                               *)
(***************************************************************************)
\* run has opened the browser, its context and the page (lines 278-280).
Launched == pc # "start" /\ ~run_raised

\* C19: once the browser is open, run closes the context and the browser once
\* each, and not before it is about to return; no exception leaves run, also
\* when the page does not load, the parameters make run give up, loading,
\* listing or reading the cards raises, the batch is empty, or the save works,
\* raises or cannot connect.
C19_ClosedOnceNothingRaised ==
    /\ context_closed = browser_closed
    /\ run_raised => (pc = "done" /\ context_closed = 0 /\ params = <<>>
                        /\ run_exc = "none")
    /\ (Launched /\ pc # "done") => context_closed = 0
    /\ (Launched /\ pc = "done") => context_closed = 1

\* C19: connecting to the database raised in save_to_database, run's handler
\* caught it, and run has returned with the context and the browser closed once.
C19_Witness ==
    /\ pc = "done"
    /\ run_exc = "Error"
    /\ save_calls # <<>>
    /\ ~run_raised
    /\ context_closed = 1
    /\ browser_closed = 1

====
